---- MODULE Spec2Model ----
(***************************************************************************)
(* Model of the bundler of cargo-algorist (src/src/cmd/bundle).            *)
(*                                                                         *)
(* Representation of strings that hold '/'-separated paths: a path string  *)
(* is the sequence of the pieces between its '/' characters, so            *)
(*   "a/b"  is <<"a","b">>,  "a//b" is <<"a","","b">>,  "" is <<"">>.      *)
(* This is a bijection between strings and non-empty sequences of          *)
(* '/'-free strings; split('/') is the sequence itself, join("/") of the   *)
(* empty list is the empty string <<"">>.                                  *)
(***************************************************************************)
EXTENDS Naturals, Sequences, FiniteSets, TLC

VARIABLES
    fs,             \* the files of the project: file path -> file (quiescent)
    crates,         \* ctx.crates: the crate index, crate name -> directory
    crate_order,    \* the order in which crates.into_iter() yields the names
    phase,          \* typestate of the Bundler / position of the driver
    idx,            \* position of the running phase in its crate loop
    pending,        \* entrypoint leaves still to be handed to insert_path
    entry_ast,      \* the parsed entrypoint while process_binary_file runs
    used_paths,     \* ctx.used_paths: [paths, pub_use_decls, pub_use_used]
    out,            \* ctx.out: the chunks written so far
    last_inserted,  \* argument of the last top-level insert_path call
    run_no,         \* 1 for the first run on the tree, 2 for the second
    first_out       \* the output of the first run, kept for comparison

vars == <<fs, crates, crate_order, phase, idx, pending, entry_ast, used_paths,
          out, last_inserted, run_no, first_out>>

-----------------------------------------------------------------------------
(* Bounds of the model.                                                    *)

\* Largest number of use-imports the entrypoint holds.
MaxUses == 2

\* Largest number of library crates under crates/.
MaxCrates == 2

\* Largest number of nested and successive insert_path calls that are counted
\* for one top-level call.
MaxCalls == 12

-----------------------------------------------------------------------------
(* Generic helpers.                                                        *)

Range(s) == {s[i] : i \in 1..Len(s)}

RECURSIVE Flatten(_)
\* Concatenation of a sequence of sequences (Iterator::flat_map(..).collect()).
Flatten(ss) == IF ss = <<>> THEN <<>> ELSE Head(ss) \o Flatten(Tail(ss))

\* segments.join("/") as a path string.
Join(segments) == IF segments = <<>> THEN <<"">> ELSE segments

\* path.split('/').filter(|s| !s.is_empty()).
SplitNonEmpty(path) == SelectSeq(path, LAMBDA s : s # "")

\* The non-empty proper-or-improper prefixes of a canonical path.
Prefixes(p) == {SubSeq(p, 1, k) : k \in 1..Len(p)}

-----------------------------------------------------------------------------
(* ParsedPaths (parsed_data.rs).                                           *)

NewParsedPaths == [paths |-> {}, pub_use_decls |-> <<>>, pub_use_used |-> {}]

contains_path(pp, other) == other \in pp.paths

is_pub_use_used(pp, alias) == alias \in pp.pub_use_used

\* Mutant of insert_pub_use_decl: recording an alias also registers it as a
\* used path.
insert_pub_use_decl_Registers(pp, alias, fully_qualified) ==
    [pp EXCEPT !.pub_use_decls =
                   [a \in (DOMAIN @) \cup {alias} |->
                       IF a = alias THEN fully_qualified ELSE @[a]],
               !.paths = @ \cup {alias}]

\* Mutant of insert_pub_use_decl: an alias that is recorded already keeps its
\* target (the first registration wins).
insert_pub_use_decl_KeepFirst(pp, alias, fully_qualified) ==
    [pp EXCEPT !.pub_use_decls =
                   [a \in (DOMAIN @) \cup {alias} |->
                       IF a \in DOMAIN @ THEN @[a] ELSE fully_qualified]]

insert_pub_use_decl(pp, alias, fully_qualified) ==
    [pp EXCEPT !.pub_use_decls =
        [a \in (DOMAIN @) \cup {alias} |->
            IF a = alias THEN fully_qualified ELSE @[a]]]

\* Mutant of AliasTargetMissing: the test looks at the target's first segment
\* only, so a target below an inserted crate counts as inserted.
AliasTargetMissing_RootOnly(pp, fully_qualified) ==
    ~ contains_path(pp, <<fully_qualified[1]>>)

\* Mutant of AliasTargetMissing: the `already inserted` test is lost, the
\* target of an alias is inserted whenever the alias is met.
AliasTargetMissing_Always(pp, fully_qualified) == TRUE

\* The alias lookup of insert_path, with the `already inserted` test.
AliasTargetMissing(pp, fully_qualified) == ~ contains_path(pp, fully_qualified)

RECURSIVE insert_path(_, _), insert_path_loop(_, _, _)
\* Mutant of insert_path: only the full path is registered and looked up,
\* the loop over the shorter prefixes is lost.
insert_path_FullOnly(pp, path) ==
    LET segments == SplitNonEmpty(path)
        pp1 == [pp EXCEPT !.paths = @ \cup {Join(segments)}]
    IN  insert_path_loop(pp1, segments, IF segments = <<>> THEN 1 ELSE Len(segments))

insert_path(pp, path) ==
    LET segments == SplitNonEmpty(path)
        pp1 == [pp EXCEPT !.paths = @ \cup {Join(segments)}]
    IN  insert_path_loop(pp1, segments, 1)

\* Mutant of insert_path_loop: an alias is marked as used only when its
\* target was in paths already; when the target is inserted the mark is lost.
insert_path_loop_MarkIfPresent(pp, segments, k) ==
    IF k > Len(segments) THEN pp
    ELSE LET cur_path == SubSeq(segments, 1, k)
             pp1 == [pp EXCEPT !.paths = @ \cup {cur_path}]
             pp2 == IF cur_path \in DOMAIN pp1.pub_use_decls
                    THEN LET fully_qualified == pp1.pub_use_decls[cur_path]
                         IN  IF AliasTargetMissing(pp1, fully_qualified)
                             THEN insert_path(pp1, fully_qualified)
                             ELSE [pp1 EXCEPT !.pub_use_used = @ \cup {cur_path}]
                    ELSE pp1
         IN  insert_path_loop(pp2, segments, k + 1)

\* Mutant of insert_path_loop: the loop stops before the last segment, so the
\* full path, which insert_path has inserted already, is not looked up.
insert_path_loop_SkipLast(pp, segments, k) ==
    IF k >= Len(segments) THEN pp
    ELSE LET cur_path == SubSeq(segments, 1, k)
             pp1 == [pp EXCEPT !.paths = @ \cup {cur_path}]
             pp2 == IF cur_path \in DOMAIN pp1.pub_use_decls
                    THEN LET fully_qualified == pp1.pub_use_decls[cur_path]
                             pp3 == IF AliasTargetMissing(pp1, fully_qualified)
                                    THEN insert_path(pp1, fully_qualified)
                                    ELSE pp1
                         IN  [pp3 EXCEPT !.pub_use_used = @ \cup {cur_path}]
                    ELSE pp1
         IN  insert_path_loop(pp2, segments, k + 1)

\* The for-loop over the segments, from segment number k on.
insert_path_loop(pp, segments, k) ==
    IF k > Len(segments) THEN pp
    ELSE LET cur_path == SubSeq(segments, 1, k)
             pp1 == [pp EXCEPT !.paths = @ \cup {cur_path}]
             pp2 == IF cur_path \in DOMAIN pp1.pub_use_decls
                    THEN LET fully_qualified == pp1.pub_use_decls[cur_path]
                             pp3 == IF AliasTargetMissing(pp1, fully_qualified)
                                    THEN insert_path(pp1, fully_qualified)
                                    ELSE pp1
                         IN  [pp3 EXCEPT !.pub_use_used = @ \cup {cur_path}]
                    ELSE pp1
         IN  insert_path_loop(pp2, segments, k + 1)

\* insert_path with its calls counted: acc = [pp, calls, exhausted].  A call
\* that would be call number MaxCalls + 1 is not made and sets `exhausted`.
RECURSIVE insert_path_counted(_, _), insert_path_loop_counted(_, _, _)
insert_path_counted(acc, path) ==
    IF acc.calls >= MaxCalls THEN [acc EXCEPT !.exhausted = TRUE]
    ELSE LET segments == SplitNonEmpty(path)
             acc1 == [acc EXCEPT !.pp.paths = @ \cup {Join(segments)},
                                 !.calls = @ + 1]
         IN  insert_path_loop_counted(acc1, segments, 1)

insert_path_loop_counted(acc, segments, k) ==
    IF k > Len(segments) \/ acc.exhausted THEN acc
    ELSE LET cur_path == SubSeq(segments, 1, k)
             acc1 == [acc EXCEPT !.pp.paths = @ \cup {cur_path}]
             acc2 == IF cur_path \in DOMAIN acc1.pp.pub_use_decls
                     THEN LET fully_qualified == acc1.pp.pub_use_decls[cur_path]
                              acc3 == IF AliasTargetMissing(acc1.pp, fully_qualified)
                                      THEN insert_path_counted(acc1, fully_qualified)
                                      ELSE acc1
                          IN  [acc3 EXCEPT !.pp.pub_use_used = @ \cup {cur_path}]
                     ELSE acc1
         IN  insert_path_loop_counted(acc2, segments, k + 1)

-----------------------------------------------------------------------------
(* The syntax tree (syn).  A use-tree is one of                            *)
(*   Path(ident, tree)  Name(ident)  Rename(ident, rename)  Glob  Group(items) *)
(* and an item is a use-import, a module (content = None or Some(items)),  *)
(* or any other item (a function, a struct), which may hold nested items.  *)

UsePath(ident, tree) == [t |-> "path", ident |-> ident, tree |-> tree]
UseName(ident) == [t |-> "name", ident |-> ident]
UseRename(ident, rename) == [t |-> "rename", ident |-> ident, rename |-> rename]
UseGlob == [t |-> "glob"]
UseGroup(items) == [t |-> "group", items |-> items]

Attr(path, args) == [path |-> path, args |-> args]

ItemUse(is_pub, tree) ==
    [kind |-> "use", attrs |-> <<>>, is_pub |-> is_pub, tree |-> tree]

\* `mod ident;` (content = None).
ItemModDecl(attrs, ident) ==
    [kind |-> "mod", attrs |-> attrs, ident |-> ident,
     has_content |-> FALSE, items |-> <<>>]

\* `mod ident { items }` (content = Some(items)).
ItemModInline(attrs, ident, items) ==
    [kind |-> "mod", attrs |-> attrs, ident |-> ident,
     has_content |-> TRUE, items |-> items]

\* Any other item; `items` are the items nested in its body.
ItemOther(attrs, ident, items) ==
    [kind |-> "other", attrs |-> attrs, ident |-> ident, items |-> items]

\* A source file: `parses` is whether parse_file accepts its text.
File(attrs, items) == [parses |-> TRUE, attrs |-> attrs, items |-> items]
BrokenFile == [parses |-> FALSE, attrs |-> <<>>, items |-> <<>>]

-----------------------------------------------------------------------------
(* Syntax utilities (mod.rs 519-655).                                      *)

is_test_module(item_mod) ==
    \E i \in 1..Len(item_mod.attrs) :
        /\ item_mod.attrs[i].path = "cfg"
        /\ item_mod.attrs[i].args = "test"

is_pub_use(item) == item.is_pub

\* Mutant of tranform_alias_and_fqn: the `std` case is lost, the target of a
\* std re-export is put below the import path like any other.
tranform_alias_and_fqn_PrefixStd(alias, import_path, segments) ==
    IF segments = <<>>
    THEN [alias |-> <<alias>>, fully_qualified |-> import_path]
    ELSE [alias |-> import_path \o <<alias>>,
          fully_qualified |-> import_path \o Join(segments)]

tranform_alias_and_fqn(alias, import_path, segments) ==
    IF segments = <<>>
    THEN [alias |-> <<alias>>, fully_qualified |-> import_path]
    ELSE [alias |-> import_path \o <<alias>>,
          fully_qualified |->
              IF segments[1] # "std"
              THEN import_path \o Join(segments)
              ELSE Join(segments)]

RECURSIVE extract_imported_paths(_, _)
extract_imported_paths(tree, prefix) ==
    CASE tree.t = "path" ->
            extract_imported_paths(tree.tree, Append(prefix, tree.ident))
      [] tree.t = "name" -> <<Append(prefix, tree.ident)>>
      [] tree.t = "rename" -> <<Append(prefix, tree.rename)>>
      [] tree.t = "group" ->
            Flatten([i \in 1..Len(tree.items) |->
                        extract_imported_paths(tree.items[i], prefix)])
      [] tree.t = "glob" -> <<prefix>>

\* The value standing for the panic!("Unexpected group ...") of wrap.
PanicTree == [t |-> "panic"]

RECURSIVE wrap_fold(_, _)
\* segments.into_iter().rev().fold(last, ..) of wrap.
wrap_fold(segments, tree) ==
    IF segments = <<>> THEN tree
    ELSE LET segment == segments[Len(segments)]
             folded ==
                CASE tree.t = "panic" -> PanicTree
                  [] segment.t = "path" -> UsePath(segment.ident, tree)
                  [] segment.t \in {"name", "rename", "glob"} -> segment
                  [] segment.t = "group" -> PanicTree
         IN  wrap_fold(SubSeq(segments, 1, Len(segments) - 1), folded)

wrap(segments, last) == ItemUse(TRUE, wrap_fold(segments, last))

RECURSIVE flatten_imported_paths(_, _)
\* Mutant of flatten_imported_paths: the items of a group are flattened
\* without the prefix the group stands below.
flatten_imported_paths_GroupNoPrefix(tree, prefix) ==
    CASE tree.t = "path" ->
            flatten_imported_paths(tree.tree, Append(prefix, tree))
      [] tree.t \in {"name", "rename", "glob"} -> <<wrap(prefix, tree)>>
      [] tree.t = "group" ->
            Flatten([i \in 1..Len(tree.items) |->
                        flatten_imported_paths(tree.items[i], <<>>)])

\* Mutant of flatten_imported_paths: a group is not expanded, it is wrapped
\* as it stands.
flatten_imported_paths_KeepGroup(tree, prefix) ==
    CASE tree.t = "path" ->
            flatten_imported_paths(tree.tree, Append(prefix, tree))
      [] OTHER -> <<wrap(prefix, tree)>>

flatten_imported_paths(tree, prefix) ==
    CASE tree.t = "path" ->
            flatten_imported_paths(tree.tree, Append(prefix, tree))
      [] tree.t \in {"name", "rename", "glob"} -> <<wrap(prefix, tree)>>
      [] tree.t = "group" ->
            Flatten([i \in 1..Len(tree.items) |->
                        flatten_imported_paths(tree.items[i], prefix)])

-----------------------------------------------------------------------------
(* The file system.  A file path is [dir, file]: the directory as a path   *)
(* string and the file name as <<stem, extension>>.                        *)

\* ctx.root_path: the canonical form of "./".
RootPath == <<"", "proj">>

FilePath(dir, stem) == [dir |-> dir, file |-> <<stem, "rs">>]

\* PathBuf::canonicalize of a path relative to the working directory.
Canonicalize(dir) == IF dir[1] = "" THEN dir ELSE RootPath \o dir

\* Path::exists / fs::read_to_string succeeding.
Exists(p) == [p EXCEPT !.dir = Canonicalize(@)] \in DOMAIN fs

ReadFile(p) == fs[[p EXCEPT !.dir = Canonicalize(@)]]

\* Path::parent of a file path.
Parent(p) == p.dir

\* Mutant of ModCandidates: the m/mod.rs form is probed first.
ModCandidates_ModRsFirst(base_path, mod_name) ==
    << FilePath(base_path \o <<mod_name>>, "mod"),
       FilePath(base_path, mod_name) >>

\* The two candidate files of load_mod, in probing order.
ModCandidates(base_path, mod_name) ==
    << FilePath(base_path, mod_name),
       FilePath(base_path \o <<mod_name>>, "mod") >>

\* load_mod: [found, base_path, code]; found = FALSE is the Err value.
load_mod(base_path, mod_name) ==
    LET cands == ModCandidates(base_path, mod_name)
        hits == SelectSeq(cands, Exists)
    IN  IF hits = <<>>
        THEN [found |-> FALSE, base_path |-> <<>>, code |-> BrokenFile]
        ELSE [found |-> TRUE, base_path |-> Parent(hits[1]),
              code |-> ReadFile(hits[1])]

\* str::replace(from, to) on a path string, `from` a run of whole pieces that
\* is neither empty nor the whole of a piece's interior; every occurrence,
\* left to right.  An empty `to` leaves the neighbouring separators in place.
RECURSIVE ReplaceStr(_, _, _)
ReplaceStr(s, from, to) ==
    IF Len(s) < Len(from) THEN s
    ELSE IF SubSeq(s, 1, Len(from)) = from
         THEN LET rest == SubSeq(s, Len(from) + 1, Len(s))
                  tail == IF rest = <<>> THEN <<>> ELSE ReplaceStr(rest, from, to)
              IN  IF to = <<"">>
                  THEN IF from[1] = "" THEN <<"">> \o tail ELSE tail
                  ELSE to \o tail
         ELSE <<s[1]>> \o ReplaceStr(Tail(s), from, to)

RECURSIVE TrimStartSlashes(_)
\* str::trim_start_matches('/').
TrimStartSlashes(s) ==
    IF Len(s) > 1 /\ s[1] = "" THEN TrimStartSlashes(Tail(s)) ELSE s

\* The import path a walker derives for the file found in base_path.
DeriveImportPath(base_path, crate_name) ==
    LET crate_src_path == crates[crate_name] \o <<"src">>
    IN  TrimStartSlashes(
            ReplaceStr(ReplaceStr(base_path, RootPath, <<"">>),
                       crate_src_path, <<crate_name>>))

-----------------------------------------------------------------------------
(* Phase state: [crate_name, path, import_path] (mod.rs 54-72).            *)

PhaseState(crate_name, path, import_path) ==
    [crate_name |-> crate_name, path |-> path, import_path |-> import_path]

\* The state a crate loop builds for the library root of crate_name.
RootState(crate_name) ==
    PhaseState(crate_name,
               Canonicalize(crates[crate_name] \o <<"src">>),
               <<crate_name>>)

\* crate_path.join("src/lib.rs").
LibraryRoot(crate_name) == FilePath(crates[crate_name] \o <<"src">>, "lib")

-----------------------------------------------------------------------------
(* Phase A: Bundler<CollectPubUseDecl> (mod.rs 90-167, 184-211).           *)
(* The walk threads acc = [pp, panicked]: the Path Index and whether an    *)
(* expect() has panicked.                                                  *)

\* process_item_use: one insert_pub_use_decl per leaf that has a last segment.
RECURSIVE CollectPubUseDecl_process_item_use(_, _, _)
CollectPubUseDecl_process_item_use(pp, st, paths) ==
    IF paths = <<>> THEN pp
    ELSE LET path == Head(paths)
             pp1 == IF path = <<>> THEN pp
                    ELSE LET r == tranform_alias_and_fqn(
                                      path[Len(path)], st.import_path, path)
                         IN  insert_pub_use_decl(pp, r.alias, r.fully_qualified)
         IN  CollectPubUseDecl_process_item_use(pp1, st, Tail(paths))

CollectPubUseDecl_visit_item_use(acc, st, node) ==
    IF ~ node.is_pub THEN acc
    ELSE [acc EXCEPT !.pp = CollectPubUseDecl_process_item_use(
                                @, st, extract_imported_paths(node.tree, <<>>))]

RECURSIVE CollectPubUseDecl_visit_items(_, _, _), CollectPubUseDecl_visit_item(_, _, _), CollectPubUseDecl_process_item_mod(_, _, _)
\* The default visitor over a list of items, in source order.
CollectPubUseDecl_visit_items(acc, st, items) ==
    IF items = <<>> \/ acc.panicked THEN acc
    ELSE CollectPubUseDecl_visit_items(
             CollectPubUseDecl_visit_item(acc, st, Head(items)), st, Tail(items))

\* visit_item: dispatch on the item kind; visit_item_mod is
\* process_item_mod followed by the default descent into the content.
CollectPubUseDecl_visit_item(acc, st, item) ==
    CASE item.kind = "use" -> CollectPubUseDecl_visit_item_use(acc, st, item)
      [] item.kind = "mod" ->
            LET acc1 == CollectPubUseDecl_process_item_mod(acc, st, item)
            IN  IF item.has_content
                THEN CollectPubUseDecl_visit_items(acc1, st, item.items)
                ELSE acc1
      [] item.kind = "other" -> CollectPubUseDecl_visit_items(acc, st, item.items)

CollectPubUseDecl_process_item_mod(acc, st, node) ==
    IF node.has_content THEN acc
    ELSE IF is_test_module(node) THEN acc
    ELSE LET loaded == load_mod(st.path, node.ident)
         IN  IF ~ loaded.found \/ ~ loaded.code.parses
             THEN [acc EXCEPT !.panicked = TRUE]
             ELSE CollectPubUseDecl_visit_items(
                      acc,
                      PhaseState(st.crate_name, loaded.base_path,
                                 DeriveImportPath(loaded.base_path, st.crate_name)),
                      loaded.code.items)

-----------------------------------------------------------------------------
(* Phase B: Bundler<ProcessBinaryFile> (mod.rs 213-267).                   *)

\* Mutant of ProcessBinaryFile_process_item_use: the test for a known crate
\* name is lost, every non-empty leaf is handed to insert_path.
ProcessBinaryFile_process_item_use_AnyRoot(tree) ==
    LET paths == extract_imported_paths(tree, <<>>)
        kept == SelectSeq(paths, LAMBDA path : path # <<>>)
    IN  [i \in 1..Len(kept) |-> Join(kept[i])]

\* process_item_use: the arguments of its insert_path calls, in order.
ProcessBinaryFile_process_item_use(tree) ==
    LET paths == extract_imported_paths(tree, <<>>)
        kept == SelectSeq(paths,
                    LAMBDA path : path # <<>> /\ path[1] \in DOMAIN crates)
    IN  [i \in 1..Len(kept) |-> Join(kept[i])]

ProcessBinaryFile_visit_item_use(node) ==
    IF node.tree.t = "path" /\ node.tree.ident \notin DOMAIN crates
    THEN <<>>
    ELSE ProcessBinaryFile_process_item_use(node.tree)

RECURSIVE ProcessBinaryFile_visit_items(_)
\* Mutant of ProcessBinaryFile_visit_items: only the use-imports at the top
\* level of the entrypoint are visited.
ProcessBinaryFile_visit_items_TopLevel(items) ==
    IF items = <<>> THEN <<>>
    ELSE LET item == Head(items)
             here == IF item.kind = "use"
                     THEN ProcessBinaryFile_visit_item_use(item)
                     ELSE <<>>
         IN  here \o ProcessBinaryFile_visit_items(Tail(items))

\* The default visitor over the entrypoint: every use-import, nested or not.
ProcessBinaryFile_visit_items(items) ==
    IF items = <<>> THEN <<>>
    ELSE LET item == Head(items)
             here == IF item.kind = "use"
                     THEN ProcessBinaryFile_visit_item_use(item)
                     ELSE ProcessBinaryFile_visit_items(item.items)
         IN  here \o ProcessBinaryFile_visit_items(Tail(items))

-----------------------------------------------------------------------------
(* Phase C: Bundler<ProcessLibraryFile> (mod.rs 308-506).                  *)
(* The mutating visitor returns [items, panicked] (or [item, panicked]).   *)

\* The attribute paths visit_attributes_mut drops.
DroppedAttrs == {"doc", "allow", "cfg", "warn"}

visit_attributes_mut(attrs) ==
    SelectSeq(attrs, LAMBDA attr : attr.path \notin DroppedAttrs)

is_used_in_binary(st, node) ==
    LET mod_name == IF st.import_path = <<"">>
                    THEN <<node.ident>>
                    ELSE st.import_path \o <<node.ident>>
    IN  contains_path(used_paths, mod_name)

\* The inner loop of filter_file_items over the flattened use-imports of one
\* public use-import: the ones kept, and whether an expect() panicked.
RECURSIVE FilterUseItems(_, _)
FilterUseItems(st, use_items) ==
    IF use_items = <<>> THEN [items |-> <<>>, panicked |-> FALSE]
    ELSE LET use_item == Head(use_items)
             rest == FilterUseItems(st, Tail(use_items))
         IN  IF use_item.tree = PanicTree
             THEN [items |-> <<>>, panicked |-> TRUE]
             ELSE LET paths == extract_imported_paths(use_item.tree, <<>>)
                  IN  IF paths = <<>> THEN rest
                      ELSE IF paths[1] = <<>>
                      THEN [items |-> <<>>, panicked |-> TRUE]
                      ELSE LET path == paths[1]
                               r == tranform_alias_and_fqn(
                                        path[Len(path)], st.import_path, path)
                           IN  IF is_pub_use_used(used_paths, r.alias)
                               THEN [rest EXCEPT !.items = <<use_item>> \o @]
                               ELSE rest

\* Whether filter_file_items retains a module item.
RetainsMod(st, item) == ~ (is_test_module(item) \/ ~ is_used_in_binary(st, item))

RECURSIVE filter_file_items(_, _)
filter_file_items(st, items) ==
    IF items = <<>> THEN [items |-> <<>>, panicked |-> FALSE]
    ELSE LET item == Head(items)
             rest == filter_file_items(st, Tail(items))
         IN  CASE item.kind = "mod" ->
                    IF RetainsMod(st, item)
                    THEN [rest EXCEPT !.items = <<item>> \o @]
                    ELSE rest
               [] item.kind = "use" ->
                    IF is_pub_use(item)
                    THEN LET kept == FilterUseItems(
                                  st, flatten_imported_paths(item.tree, <<>>))
                         IN  [items |-> kept.items \o rest.items,
                              panicked |-> kept.panicked \/ rest.panicked]
                    ELSE [rest EXCEPT !.items = <<item>> \o @]
               [] OTHER -> [rest EXCEPT !.items = <<item>> \o @]

\* Results of the visitor put together (each visitor call is evaluated once).
FileResult(attrs, filter_panicked, visited) ==
    [attrs |-> attrs, items |-> visited.items,
     panicked |-> filter_panicked \/ visited.panicked]

ConsResult(first, rest) ==
    [items |-> <<first.item>> \o rest.items,
     panicked |-> first.panicked \/ rest.panicked]

WithItems(item, inner) ==
    [item |-> [item EXCEPT !.items = inner.items], panicked |-> inner.panicked]

\* node.content = Some((Default::default(), ast.items)).
WithContent(node, ast) ==
    [item |-> [node EXCEPT !.has_content = TRUE, !.items = ast.items],
     panicked |-> ast.panicked]

RECURSIVE visit_file_mut(_, _), visit_filtered(_, _, _), visit_items_mut(_, _), visit_item_mut(_, _), visit_item_mod_mut(_, _), visit_mod_content(_, _), process_item_mod_mut(_, _)
visit_file_mut(st, file) ==
    visit_filtered(st, visit_attributes_mut(file.attrs),
                   filter_file_items(st, file.items))

\* The rest of visit_file_mut, once filter_file_items has returned.
visit_filtered(st, attrs, filtered) ==
    FileResult(attrs, filtered.panicked, visit_items_mut(st, filtered.items))

\* `for it in items { self.visit_item_mut(it) }`.
visit_items_mut(st, items) ==
    IF items = <<>> THEN [items |-> <<>>, panicked |-> FALSE]
    ELSE ConsResult(visit_item_mut(st, Head(items)),
                    visit_items_mut(st, Tail(items)))

\* visit_item_mut: dispatch on the item kind; the default visitor of the
\* other kinds visits their attributes and the items nested in them.
visit_item_mut(st, item) ==
    CASE item.kind = "mod" -> visit_item_mod_mut(st, item)
      [] item.kind = "use" ->
            [item |-> [item EXCEPT !.attrs = visit_attributes_mut(@)],
             panicked |-> FALSE]
      [] item.kind = "other" ->
            WithItems([item EXCEPT !.attrs = visit_attributes_mut(@)],
                      visit_items_mut(st, item.items))

visit_item_mod_mut(st, node) ==
    visit_mod_content(
        st, process_item_mod_mut(st, [node EXCEPT !.attrs = visit_attributes_mut(@)]))

\* The rest of visit_item_mod_mut, once process_item_mod_mut has returned:
\* the items of the content are visited, under the same phase state.
visit_mod_content(st, expanded) ==
    IF expanded.panicked \/ ~ expanded.item.has_content THEN expanded
    ELSE WithItems(expanded.item, visit_items_mut(st, expanded.item.items))

process_item_mod_mut(st, node) ==
    IF node.has_content THEN [item |-> node, panicked |-> FALSE]
    ELSE LET loaded == load_mod(st.path, node.ident)
         IN  IF ~ loaded.found \/ ~ loaded.code.parses
             THEN [item |-> node, panicked |-> TRUE]
             ELSE WithContent(
                      node,
                      visit_file_mut(
                          PhaseState(st.crate_name, loaded.base_path,
                              DeriveImportPath(loaded.base_path, st.crate_name)),
                          loaded.code))

\* The attributes of the wrapper module (mod.rs 332-336).
WrapperAttrs ==
    << Attr("allow", "dead_code"), Attr("allow", "unused_imports"),
       Attr("allow", "unused_macros") >>

\* The identifiers of the model whose text ends in `crate`.
EndsWithCrate(ident) == ident \in {"crate", "mycrate"}

\* Whether the printed form of a use-tree starts with a word character
\* (an identifier), as opposed to `{` or `*`.
StartsWithWord(tree) == tree.t \in {"path", "name", "rename"}

RECURSIVE RewriteTree(_, _)
\* Mutant of RewriteTree: an occurrence of `crate::` that is followed by the
\* crate name already is left alone.
RewriteTree_SkipRewritten(tree, crate_name) ==
    CASE tree.t = "path" ->
            LET sub == RewriteTree(tree.tree, crate_name)
            IN  IF /\ EndsWithCrate(tree.ident)
                   /\ StartsWithWord(tree.tree)
                   /\ ~ (tree.tree.t = "path" /\ tree.tree.ident = crate_name)
                THEN UsePath(tree.ident, UsePath(crate_name, sub))
                ELSE UsePath(tree.ident, sub)
      [] tree.t = "group" ->
            UseGroup([i \in 1..Len(tree.items) |->
                         RewriteTree(tree.items[i], crate_name)])
      [] OTHER -> tree

\* Regex `crate::\b` replaced by `crate::<crate_name>::` on the printed form
\* `ident::tree` of a use-tree, left to right, matches not overlapping.
RewriteTree(tree, crate_name) ==
    CASE tree.t = "path" ->
            LET sub == RewriteTree(tree.tree, crate_name)
            IN  IF EndsWithCrate(tree.ident) /\ StartsWithWord(tree.tree)
                THEN UsePath(tree.ident, UsePath(crate_name, sub))
                ELSE UsePath(tree.ident, sub)
      [] tree.t = "group" ->
            UseGroup([i \in 1..Len(tree.items) |->
                         RewriteTree(tree.items[i], crate_name)])
      [] OTHER -> tree

RECURSIVE RewriteItems(_, _)
RewriteItems(items, crate_name) ==
    [i \in 1..Len(items) |->
        IF items[i].kind = "use"
        THEN [items[i] EXCEPT !.tree = RewriteTree(@, crate_name)]
        ELSE [items[i] EXCEPT !.items = RewriteItems(@, crate_name)]]

\* post_process_output_string on the printed file.
post_process_output_string(crate_name, content) ==
    [content EXCEPT !.items = RewriteItems(@, crate_name)]

\* unparse(&ast): the printed file, kept in structured form.
Unparse(ast) == [attrs |-> ast.attrs, items |-> ast.items]

\* unparse(&ast) of the transformed library root with its items wrapped in
\* the module named after the crate: the text handed to the path rewrite.
wrapped_content(crate_name, ast) ==
    LET mod_item == ItemModInline(WrapperAttrs, crate_name, ast.items)
    IN  Unparse([attrs |-> ast.attrs, items |-> <<mod_item>>])

\* The wrapping and writing of process_library_file, once the visitor has
\* returned the transformed library root.
wrap_and_write(st, crate_name, sink, ast) ==
    LET content == post_process_output_string(
                       st.crate_name, wrapped_content(crate_name, ast))
    IN  IF ast.panicked
        THEN [result |-> "panic", out |-> sink]
        ELSE [result |-> "ok", out |-> Append(sink, content)]

\* process_library_file: [result, out]; result is "ok" (Ok(())), "err" (an
\* Err propagated with `?`) or "panic".
process_library_file(st, crate_name, sink) ==
    IF ~ Exists(LibraryRoot(crate_name))
    THEN [result |-> "ok", out |-> sink]
    ELSE IF ~ ReadFile(LibraryRoot(crate_name)).parses
         THEN [result |-> "err", out |-> sink]
         ELSE wrap_and_write(st, crate_name, sink,
                  visit_file_mut(st, ReadFile(LibraryRoot(crate_name))))

-----------------------------------------------------------------------------
(* The projects the bundler is run on: the source trees and entrypoints    *)
(* the initial state draws from.                                           *)

RECURSIVE PathTree(_, _)
\* The use-tree `s1::s2::...::leaf`.
PathTree(segs, leaf) ==
    IF segs = <<>> THEN leaf ELSE UsePath(Head(segs), PathTree(Tail(segs), leaf))

PubUse(segs, leaf) == ItemUse(TRUE, PathTree(segs, leaf))
PrivUse(segs, leaf) == ItemUse(FALSE, PathTree(segs, leaf))
Def(ident) == ItemOther(<<>>, ident, <<>>)
PubMod(ident) == ItemModDecl(<<>>, ident)
CfgTest == Attr("cfg", "test")
\* An item with the attributes attrs written before it.
WithAttrs(attrs, item) == [item EXCEPT !.attrs = attrs]

\* The names of the crates that may be found under crates/, in pool order.
CratePool == <<"lib_a", "lib_b", "lib_c">>

SrcDir(crate_name) == RootPath \o <<"crates", crate_name, "src">>

\* The module files of lib_a, shared by all of its library roots.  The
\* module inner is there in both forms, inner.rs and inner/mod.rs.
LibA_Modules ==
    LET d == SrcDir("lib_a") IN
       FilePath(d, "inner") :>
           File(<<Attr("allow", "unused")>>,
                <<ItemOther(<<Attr("cfg", "unix"), Attr("derive", "Debug")>>,
                            "Thing", <<>>)>>)
    @@ FilePath(d \o <<"inner">>, "mod") :> File(<<>>, <<Def("Shadowed")>>)
    @@ FilePath(d \o <<"deep">>, "mod") :>
           File(<<Attr("doc", "deep")>>,
                << PubMod("nested"), PubMod("side"),
                   PubUse(<<"nested">>, UseName("R")) >>)
    @@ FilePath(d \o <<"deep">>, "nested") :> File(<<>>, <<Def("X"), Def("R")>>)
    @@ FilePath(d \o <<"deep">>, "side") :> File(<<>>, <<Def("Y")>>)
    @@ FilePath(d \o <<"m">>, "mod") :>
           File(<<>>,
                << WithAttrs(<<Attr("warn", "unused"), Attr("rustfmt", "skip")>>,
                             PrivUse(<<"crate", "util">>, UseName("helper"))),
                   PrivUse(<<"lib_b", "x">>, UseName("h")),
                   PrivUse(<<"crate">>,
                           UseGroup(<<PathTree(<<"inner">>, UseName("Thing"))>>)),
                   PrivUse(<<"crate">>, UseGlob),
                   PrivUse(<<"mycrate">>, UseName("y")),
                   ItemOther(<<Attr("inline", "")>>, "f", <<>>),
                   ItemModInline(<<CfgTest>>, "tests",
                       << Def("t"), PubUse(<<"super">>, UseRename("f", "tf")) >>) >>)
    @@ FilePath(d, "util") :>
           File(<<>>, << Def("helper"),
                         PubUse(<<"self">>, UseRename("helper", "assist")) >>)
    @@ FilePath(d, "a") :> File(<<>>, <<Def("T")>>)
    @@ FilePath(d, "b") :> File(<<>>, <<Def("T")>>)
    @@ FilePath(d, "tests") :> File(<<>>, <<PubUse(<<"inner">>, UseName("Thing"))>>)

\* Library roots of lib_a.
\* 1: re-exports written with `crate::` paths.
LibA_Root1 ==
    File(<<>>,
         << PubUse(<<"crate", "inner">>, UseName("Thing")),
            PubUse(<<"crate", "deep", "nested">>, UseName("X")),
            PubMod("inner"), PubMod("deep"), PubMod("m"), PubMod("util") >>)

\* 2: re-exports written with relative paths, a group holding a group,
\* renames, a chain (R), a std item, a self-named re-export and a declared test module.
LibA_Root2 ==
    File(<<Attr("doc", "lib_a"), Attr("no_std", "")>>,
         << WithAttrs(<<Attr("doc", "Thing"), Attr("deprecated", "")>>,
                      PubUse(<<"inner">>, UseName("Thing"))),
            PubUse(<<"deep">>,
                   UseGroup(<< UsePath("nested",
                                   UseGroup(<<UseName("X"), UseRename("R", "Q")>>)),
                               PathTree(<<"side">>, UseRename("Y", "Z")) >>)),
            PubUse(<<"deep">>, UseName("R")),
            PubUse(<<"std", "collections">>, UseName("HashMap")),
            PubUse(<<>>, UseName("rand")),
            PrivUse(<<"std">>, UseName("fmt")),
            PubMod("inner"), PubMod("deep"), PubMod("m"), PubMod("util"),
            ItemModDecl(<<CfgTest>>, "tests") >>)

\* 3: an inlined module holding a test module, an unused module and a
\* re-export.
LibA_Root3 ==
    File(<<>>,
         << ItemModInline(<<Attr("doc", "m")>>, "m",
                << ItemOther(<<Attr("inline", "")>>, "f", <<>>),
                   ItemModInline(<<CfgTest>>, "tests", <<Def("t")>>),
                   ItemModInline(<<>>, "unused", <<Def("u")>>),
                   PubUse(<<"super", "inner">>, UseRename("Thing", "Hidden")) >>),
            PubMod("inner") >>)

\* 4: two re-exports that derive the same alias at the same import path.
LibA_Root4 ==
    File(<<>>,
         << PubUse(<<"a">>, UseName("T")),
            PubMod("a"), PubMod("b"),
            ItemModInline(<<>>, "w", <<PubUse(<<"super", "b">>, UseName("T"))>>) >>)

LibA_Roots == <<LibA_Root1, LibA_Root2, LibA_Root3, LibA_Root4>>

\* The files of lib_a with library root number v.
LibA_Files(v) == (FilePath(SrcDir("lib_a"), "lib") :> LibA_Roots[v]) @@ LibA_Modules

\* The files of lib_b: complete, without library root, with a library root
\* that does not parse, and with a declared module whose file is missing.
LibB_Files(v) ==
    LET d == SrcDir("lib_b")
        x == FilePath(d, "x") :> File(<<>>, <<Def("h")>>)
    IN  CASE v = 1 -> (FilePath(d, "lib") :>
                          File(<<>>, <<PubMod("x"), Def("g")>>)) @@ x
          [] v = 2 -> x
          [] v = 3 -> (FilePath(d, "lib") :> BrokenFile) @@ x
          [] v = 4 -> FilePath(d, "lib") :>
                          File(<<>>, <<PubMod("gone"), Def("g")>>)

LibB_Variants == 1..4

\* The files of any further crate of the pool.
Plain_Files(crate_name) ==
    FilePath(SrcDir(crate_name), "lib") :> File(<<>>, <<Def("c0")>>)

\* The use-imports (and items holding them) an entrypoint is made of.
EntryPool ==
    << PrivUse(<<"lib_a">>, UseName("Thing")),
       PrivUse(<<"lib_a">>, UseName("X")),
       PrivUse(<<"lib_a", "m">>, UseName("f")),
       PrivUse(<<"lib_a">>, UseGroup(<< UseName("Z"), UseName("R"), UseName("rand"),
                                        UseName("HashMap") >>)),
       PrivUse(<<"lib_a">>, UseName("T")),
       PrivUse(<<"std">>, UseName("io")),
       PrivUse(<<"lib_a">>, UseGroup(<< UseRename("m", "x"),
                                        PathTree(<<"inner">>, UseGlob) >>)),
       ItemOther(<<>>, "main",
                 << PrivUse(<<"lib_c">>, UseName("c0")),
                    ItemModInline(<<>>, "helpers",
                                  <<PrivUse(<<"lib_b">>, UseName("g"))>>) >>),
       PrivUse(<<>>, UseGroup(<< PathTree(<<"std">>, UseName("fmt")),
                                 PathTree(<<"lib_b">>, UseName("g")),
                                 UseGlob >>)) >>

\* The strictly increasing index sequences of length at most k over 1..n.
IncSeqs(n, k) ==
    {s \in UNION {[1..m -> 1..n] : m \in 0..k} :
        \A i \in 1..Len(s) : \A j \in 1..Len(s) : i < j => s[i] < s[j]}

\* The entrypoints: at most MaxUses items of the pool.
Entries ==
    {[i \in 1..Len(s) |-> EntryPool[s[i]]] : s \in IncSeqs(Len(EntryPool), MaxUses)}

\* ctx.src, the canonical path of the entrypoint.
EntryPath == FilePath(RootPath \o <<"src", "bin">>, "p")

\* The numbers of crates a project may hold.
CrateCounts == 1..(IF MaxCrates < Len(CratePool) THEN MaxCrates ELSE Len(CratePool))

\* The files of the first n crates of the pool.
CrateFiles(n, va, vb) ==
    LET a == LibA_Files(va)
        b == IF n >= 2 THEN LibB_Files(vb) ELSE <<>>
        c == IF n >= 3 THEN Plain_Files(CratePool[3]) ELSE <<>>
    IN  a @@ b @@ c

\* The source trees: [n, files].
Trees ==
    {[n |-> n, files |-> CrateFiles(n, va, vb)] :
        n \in CrateCounts, va \in 1..Len(LibA_Roots), vb \in LibB_Variants}

\* Crates::new: every directory under crates/ with a manifest naming it.
CrateIndex(n) == [c \in {CratePool[i] : i \in 1..n} |-> <<"crates", c>>]

\* The orders in which a HashMap holding the names S may yield them.
IterationOrders(S) ==
    {s \in [1..Cardinality(S) -> S] : \A i, j \in 1..Cardinality(S) : s[i] = s[j] => i = j}

-----------------------------------------------------------------------------
(* The driver (mod.rs 28-41, 169-231, 269-306, 508-517).                   *)

\* The placeholder of entry_ast while no entrypoint is parsed.
NoAst == BrokenFile

\* BundlerContext::new and Bundler::new on one of the projects: the state in
\* which run() starts.
Init ==
    \E tree \in Trees, entry \in Entries :
        /\ fs = tree.files @@ (EntryPath :> File(<<>>, entry))
        /\ crates = CrateIndex(tree.n)
        /\ crate_order \in IterationOrders(DOMAIN crates)
        /\ phase = "collect_pub_use_decls"
        /\ idx = 1
        /\ pending = <<>>
        /\ entry_ast = NoAst
        /\ used_paths = NewParsedPaths
        /\ out = <<>>
        /\ last_inserted = <<>>
        /\ run_no = 1
        /\ first_out = <<>>

\* One iteration of the crate loop of collect_pub_use_decls.
collect_pub_use_decls ==
    /\ phase = "collect_pub_use_decls"
    /\ idx <= Len(crate_order)
    /\ LET crate_name == crate_order[idx]
           lib == LibraryRoot(crate_name)
       IN  IF ~ Exists(lib) \/ ~ ReadFile(lib).parses
           THEN /\ phase' = "failed"
                /\ UNCHANGED <<idx, used_paths>>
           ELSE LET acc == CollectPubUseDecl_visit_items(
                               [pp |-> used_paths, panicked |-> FALSE],
                               RootState(crate_name), ReadFile(lib).items)
                IN  IF acc.panicked
                    THEN /\ phase' = "panicked"
                         /\ UNCHANGED <<idx, used_paths>>
                    ELSE /\ used_paths' = acc.pp
                         /\ idx' = idx + 1
                         /\ UNCHANGED phase
    /\ UNCHANGED <<fs, crates, crate_order, pending, entry_ast, out,
                   last_inserted, run_no, first_out>>

\* process_binary_file up to the visit of the parsed entrypoint: the leaves
\* the visitor hands to insert_path are queued in visiting order.
process_binary_file ==
    /\ phase = "collect_pub_use_decls"
    /\ idx > Len(crate_order)
    /\ IF ~ Exists(EntryPath) \/ ~ ReadFile(EntryPath).parses
       THEN /\ phase' = "failed"
            /\ UNCHANGED <<pending, entry_ast>>
       ELSE /\ phase' = "process_binary_file"
            /\ entry_ast' = ReadFile(EntryPath)
            /\ pending' = ProcessBinaryFile_visit_items(ReadFile(EntryPath).items)
    /\ UNCHANGED <<fs, crates, crate_order, idx, used_paths, out,
                   last_inserted, run_no, first_out>>

\* One top-level insert_path call of the entrypoint visitor.
visit_item_use_insert_path ==
    /\ phase = "process_binary_file"
    /\ pending # <<>>
    /\ used_paths' = insert_path(used_paths, Head(pending))
    /\ last_inserted' = Head(pending)
    /\ pending' = Tail(pending)
    /\ UNCHANGED <<fs, crates, crate_order, phase, idx, entry_ast, out,
                   run_no, first_out>>

\* The end of process_binary_file: the entrypoint is written to the sink.
write_source_file ==
    /\ phase = "process_binary_file"
    /\ pending = <<>>
    /\ out' = Append(out, Unparse(entry_ast))
    /\ entry_ast' = NoAst
    /\ phase' = "collect_library_files"
    /\ idx' = 1
    /\ UNCHANGED <<fs, crates, crate_order, pending, used_paths,
                   last_inserted, run_no, first_out>>

\* Mutant of IgnoresCrate: the `unused crate` test is lost.
IgnoresCrate_Never(crate_name) == FALSE

\* Whether the crate loop of collect_library_files skips a crate.
IgnoresCrate(crate_name) == ~ contains_path(used_paths, <<crate_name>>)

\* Mutant of LibraryFileProcessed: the wrapper just written is put in front
\* of the output instead of after it.
LibraryFileProcessed_Prepend(r) ==
    CASE r.result = "ok" ->
            /\ out' = IF Len(r.out) > Len(out)
                      THEN <<r.out[Len(r.out)]>> \o out
                      ELSE out
            /\ idx' = idx + 1
            /\ UNCHANGED phase
      [] r.result = "err" ->
            /\ phase' = "failed"
            /\ UNCHANGED <<idx, out>>
      [] r.result = "panic" ->
            /\ phase' = "panicked"
            /\ UNCHANGED <<idx, out>>

\* The `?` on the result r of process_library_file and the loop step.
LibraryFileProcessed(r) ==
    CASE r.result = "ok" ->
            /\ out' = r.out
            /\ idx' = idx + 1
            /\ UNCHANGED phase
      [] r.result = "err" ->
            /\ phase' = "failed"
            /\ UNCHANGED <<idx, out>>
      [] r.result = "panic" ->
            /\ phase' = "panicked"
            /\ UNCHANGED <<idx, out>>

\* One iteration of the crate loop of collect_library_files.
collect_library_files ==
    /\ phase = "collect_library_files"
    /\ idx <= Len(crate_order)
    /\ LET crate_name == crate_order[idx]
       IN  IF IgnoresCrate(crate_name)
           THEN /\ idx' = idx + 1
                /\ UNCHANGED <<phase, out>>
           ELSE LibraryFileProcessed(
                    process_library_file(RootState(crate_name), crate_name, out))
    /\ UNCHANGED <<fs, crates, crate_order, pending, entry_ast, used_paths,
                   last_inserted, run_no, first_out>>

complete_bundling ==
    /\ phase = "collect_library_files"
    /\ idx > Len(crate_order)
    /\ phase' = "done"
    /\ UNCHANGED <<fs, crates, crate_order, idx, pending, entry_ast,
                   used_paths, out, last_inserted, run_no, first_out>>

\* The tool is run a second time on the unchanged source tree: a new
\* context, hence a new crate index with its own iteration order.
run_again ==
    /\ phase = "done"
    /\ run_no = 1
    /\ run_no' = 2
    /\ first_out' = out
    /\ crate_order' \in IterationOrders(DOMAIN crates)
    /\ phase' = "collect_pub_use_decls"
    /\ idx' = 1
    /\ pending' = <<>>
    /\ entry_ast' = NoAst
    /\ used_paths' = NewParsedPaths
    /\ out' = <<>>
    /\ last_inserted' = <<>>
    /\ UNCHANGED <<fs, crates>>

Next ==
    \/ collect_pub_use_decls
    \/ process_binary_file
    \/ visit_item_use_insert_path
    \/ write_source_file
    \/ collect_library_files
    \/ complete_bundling
    \/ run_again

Spec == Init /\ [][Next]_vars

-----------------------------------------------------------------------------
(* Vocabulary of the properties: the input tree and the output, read back. *)

IsPrefix(p, q) == Len(p) <= Len(q) /\ SubSeq(q, 1, Len(p)) = p

RECURSIVE AllItems(_)
\* Every item of a list of items, the nested ones included.
AllItems(items) ==
    UNION {{items[i]} \cup (IF items[i].kind = "use" THEN {}
                            ELSE AllItems(items[i].items)) : i \in 1..Len(items)}

RECURSIVE ItemsAt(_, _)
\* Every item together with the lexical module path it sits at.
ItemsAt(items, at) ==
    UNION {{[at |-> at, item |-> items[i]]} \cup
           (CASE items[i].kind = "mod" ->
                    ItemsAt(items[i].items, at \o <<items[i].ident>>)
              [] items[i].kind = "other" -> ItemsAt(items[i].items, at)
              [] OTHER -> {}) : i \in 1..Len(items)}

RECURSIVE HasModPath(_, _)
\* Whether the module chain names[1]::names[2]::... exists below items.
HasModPath(items, names) ==
    \/ names = <<>>
    \/ \E i \in 1..Len(items) :
          /\ items[i].kind = "mod"
          /\ items[i].ident = names[1]
          /\ HasModPath(items[i].items, Tail(names))

\* The leaf paths of a use-tree, as sets.
Leaves(tree) == Range(extract_imported_paths(tree, <<>>))

RECURSIVE UseLeaves(_)
\* The leaf paths of all use-imports among items, the nested ones included.
UseLeaves(items) ==
    Flatten([i \in 1..Len(items) |->
                IF items[i].kind = "use"
                THEN extract_imported_paths(items[i].tree, <<>>)
                ELSE UseLeaves(items[i].items)])

Finished == phase = "done"
AfterEntryScan == phase \in {"collect_library_files", "done"}

\* The entrypoint on disk, and the leaf paths of all of its use-imports.
EntryFile == fs[EntryPath]
EntryImports == Range(UseLeaves(EntryFile.items))

\* The wrapper modules of the output: chunk 1 is the entrypoint.
WrapperChunks == {i \in 2..Len(out) : TRUE}
WrapperOf(i) == out[i].items[1]
WrapperNames == [i \in 1..(Len(out) - 1) |-> WrapperOf(i + 1).ident]
OutputTopItems == Flatten([i \in 1..Len(out) |-> out[i].items])

\* Every item of the output that sits inside a wrapper, with the lexical
\* module path it sits at (the path starts with the crate name).
WrappedItems ==
    UNION {ItemsAt(WrapperOf(i).items, <<WrapperOf(i).ident>>) : i \in WrapperChunks}

\* The files of a crate, and the items of its source.
CrateFilePaths(c) == {f \in DOMAIN fs : IsPrefix(SrcDir(c), f.dir)}
CrateItems(c) == UNION {AllItems(fs[f].items) : f \in CrateFilePaths(c)}
TestModuleNames(c) ==
    {it.ident : it \in {x \in CrateItems(c) : x.kind = "mod" /\ is_test_module(x)}}

\* The alias closure of a set of canonical paths under the alias map:
\* the least set holding S, closed under prefixes and alias targets.
RECURSIVE AliasClosure(_, _)
AliasClosure(decls, S) ==
    LET S2 == S \cup UNION {Prefixes(p) : p \in S}
                \cup {decls[p] : p \in S \cap DOMAIN decls}
    IN  IF S2 = S THEN S ELSE AliasClosure(decls, S2)

-----------------------------------------------------------------------------
(* The properties.                                                         *)

\* C1: prefix closure.  Between any two top-level insert_path calls every
\* non-empty prefix of every path of `paths` is in `paths`, and every prefix
\* join(segs[:k]) of the path inserted last is contained.
C1_PrefixClosure ==
    /\ \A p \in used_paths.paths : Prefixes(p) \subseteq used_paths.paths
    /\ last_inserted # <<>> =>
          \A k \in 1..Len(last_inserted) :
              contains_path(used_paths, Join(SubSeq(last_inserted, 1, k)))

\* C1 witness: a path of three segments or more is in paths that the
\* entrypoint did not name, i.e. one inserted through an alias.
C1_Witness ==
    /\ last_inserted # <<>>
    /\ \E p \in used_paths.paths :
          /\ Len(p) >= 3
          /\ \A q \in EntryImports : ~ IsPrefix(p, q)

\* C2: alias closure.  After insert_path(p) has returned, everything the
\* alias map reaches from p (prefixes, alias targets, their prefixes and
\* targets, and so on) is in paths, and every alias among it is in alias_hits.
C2_AliasClosure ==
    last_inserted # <<>> =>
        LET reach == AliasClosure(used_paths.pub_use_decls, {last_inserted})
        IN  /\ reach \subseteq used_paths.paths
            /\ \A pfx \in reach \cap DOMAIN used_paths.pub_use_decls :
                  /\ used_paths.pub_use_decls[pfx] \in used_paths.paths
                  /\ is_pub_use_used(used_paths, pfx)

\* C2 witness: an alias chain of two links was followed from the inserted
\* path: its alias target has a prefix that is an alias itself.
C2_Witness ==
    /\ last_inserted \in DOMAIN used_paths.pub_use_decls
    /\ LET q == used_paths.pub_use_decls[last_inserted]
       IN  /\ q # last_inserted
           /\ q \in DOMAIN used_paths.pub_use_decls
           /\ used_paths.pub_use_decls[q] \notin {q, last_inserted}
           /\ used_paths.pub_use_decls[q] \in used_paths.paths

\* C3: determinism.  The second run on the unchanged tree ends with the
\* output of the first run.
C3_Deterministic == (Finished /\ run_no = 2) => out = first_out

\* C4: alias re-export end to end.  For every re-export `pub use
\* crate::s1::..::sn::Leaf;` in the library root of a crate c whose name
\* c::Leaf the entrypoint imports, the module paths c/s1, .., c/s1/../sn are
\* in paths after Phase B, and the output holds those modules in c's wrapper.
C4_ReexportKeepsModules ==
    \A c \in DOMAIN crates :
        Exists(LibraryRoot(c)) =>
        \A i \in 1..Len(ReadFile(LibraryRoot(c)).items) :
            LET item == ReadFile(LibraryRoot(c)).items[i]
            IN  (item.kind = "use" /\ item.is_pub) =>
                \A segs \in Leaves(item.tree) :
                    (/\ Len(segs) >= 3
                     /\ segs[1] = "crate"
                     /\ <<c, segs[Len(segs)]>> \in EntryImports) =>
                    \A k \in 2..(Len(segs) - 1) :
                        /\ AfterEntryScan =>
                              contains_path(used_paths, <<c>> \o SubSeq(segs, 2, k))
                        /\ Finished =>
                              HasModPath(OutputTopItems, <<c>> \o SubSeq(segs, 2, k))

\* C5: transitive completeness.  Every private use-import inside a wrapper
\* that is rooted at `crate` or at a discovered crate names modules that are
\* in the output as well.
C5_TransitivelyComplete ==
    Finished =>
        \A w \in WrappedItems :
            (w.item.kind = "use" /\ ~ w.item.is_pub) =>
            \A segs \in Leaves(w.item.tree) :
                LET target == IF segs # <<>> /\ segs[1] = "crate" THEN Tail(segs)
                              ELSE IF segs # <<>> /\ segs[1] \in DOMAIN crates THEN segs
                              ELSE <<>>
                IN  target # <<>> =>
                        HasModPath(OutputTopItems, SubSeq(target, 1, Len(target) - 1))

\* C6: no test modules.  No module that carries cfg(test) in the input of a
\* bundled crate is in that crate's wrapper, at any depth.
C6_NoTestModules ==
    Finished =>
        \A w \in WrappedItems :
            w.item.kind = "mod" => w.item.ident \notin TestModuleNames(w.at[1])

\* C7: module pruning.  Every module inside a wrapper has its path in paths.
C7_ModulesInPaths ==
    Finished =>
        \A w \in WrappedItems :
            w.item.kind = "mod" =>
                contains_path(used_paths, w.at \o <<w.item.ident>>)

\* C8: retained re-exports are used aliases.  Every public use-import inside
\* a wrapper, at any depth, has a single leaf, whose alias (derived at the
\* import path of the module it sits in, a prefix of its lexical path) is in
\* alias_hits.
C8_ReexportsAreAliasHits ==
    Finished =>
        \A w \in WrappedItems :
            (w.item.kind = "use" /\ w.item.is_pub) =>
                /\ Cardinality(Leaves(w.item.tree)) = 1
                /\ \A segs \in Leaves(w.item.tree) :
                      /\ segs # <<>>
                      /\ \E at \in Prefixes(w.at) :
                            is_pub_use_used(used_paths, at \o <<segs[Len(segs)]>>)

\* C9: a kept re-export keeps its target.  For every leaf of a public
\* use-import of a library root that Phase C emits into the wrapper, the
\* target derived for that leaf and all its prefixes are in paths.
C9_KeptReexportKeepsTarget ==
    Finished =>
        \A j \in WrapperChunks :
            LET c == WrapperOf(j).ident
                root == ReadFile(LibraryRoot(c)).items
            IN  \A i \in 1..Len(root) :
                    (root[i].kind = "use" /\ root[i].is_pub) =>
                    \A leaf \in Range(flatten_imported_paths(root[i].tree, <<>>)) :
                        ([leaf EXCEPT !.tree = RewriteTree(@, c)]
                             \in Range(WrapperOf(j).items)) =>
                        \A segs \in Leaves(leaf.tree) :
                            Prefixes(tranform_alias_and_fqn(
                                         segs[Len(segs)], <<c>>, segs).fully_qualified)
                                \subseteq used_paths.paths

\* C10: single-file output.  A successful run leaves the unchanged
\* entrypoint first, then one chunk per discovered crate whose name is in
\* paths, each holding one wrapper module named after its crate; no wrapper
\* for any other crate and no name twice.
C10_SingleFileOutput ==
    Finished =>
        /\ Len(out) >= 1
        /\ out[1] = [attrs |-> EntryFile.attrs, items |-> EntryFile.items]
        /\ \A i \in WrapperChunks :
              /\ Len(out[i].items) = 1
              /\ WrapperOf(i).kind = "mod"
              /\ WrapperOf(i).has_content
        /\ Range(WrapperNames) =
              {c \in DOMAIN crates : contains_path(used_paths, <<c>>)}
        /\ \A i, j \in 1..Len(WrapperNames) :
              WrapperNames[i] = WrapperNames[j] => i = j

\* C10 witness: a finished run over two crates, one bundled and one not.
C10_Witness ==
    /\ Finished
    /\ Len(out) = 2
    /\ Cardinality(DOMAIN crates) = 2

\* The crates whose library root src/lib.rs is missing, and those whose
\* library root is present but does not parse.
RootlessCrates == {c \in DOMAIN crates : ~ Exists(LibraryRoot(c))}
BrokenRootCrates ==
    {c \in DOMAIN crates :
        Exists(LibraryRoot(c)) /\ ~ ReadFile(LibraryRoot(c)).parses}

\* C11: a missing library root is not fatal.  A run over a project in which
\* every library root that exists parses never ends in failure: a crate
\* without src/lib.rs is skipped, not an error.
C11_MissingRootNotFatal ==
    (RootlessCrates # {} /\ BrokenRootCrates = {}) => phase # "failed"

\* C12: fatal errors.  An I/O or parse error met while a phase runs comes
\* back to the driver as an error value: no step of a run ends in a panic,
\* and once the run has failed no further step is taken (no later phase
\* starts, nothing more is written).
C12_ErrorsPropagate ==
    [][phase' # "panicked" /\ phase \notin {"failed", "panicked"}]_vars

\* The position of a phase in the order of Bundler::run; a run that has
\* stopped on an error is past every phase.
PhaseRank(p) ==
    CASE p = "collect_pub_use_decls" -> 1
      [] p = "process_binary_file" -> 2
      [] p = "collect_library_files" -> 3
      [] p = "done" -> 4
      [] OTHER -> 5

\* The position of a crate in the iteration order of the crate index.
IterationIndex(c) == CHOOSE i \in 1..Len(crate_order) : crate_order[i] = c

\* The output so far: nothing before the entry scan has ended, then the
\* entrypoint first and the wrappers in crate iteration order, each for a
\* crate the loop of collect_library_files has passed.
OutputInPhaseOrder ==
    /\ PhaseRank(phase) <= 2 => out = <<>>
    /\ phase \in {"collect_library_files", "done"} =>
          /\ Len(out) >= 1
          /\ out[1] = Unparse(EntryFile)
          /\ \A i \in 1..Len(WrapperNames) :
                /\ WrapperNames[i] \in Range(crate_order)
                /\ IterationIndex(WrapperNames[i]) < idx
                /\ \A j \in 1..Len(WrapperNames) :
                      i < j => IterationIndex(WrapperNames[i])
                                   < IterationIndex(WrapperNames[j])

\* A step of a run never goes back to an earlier phase, and the crate loops
\* of phases A and C only move forward.
PhaseAdvances ==
    run_no' = run_no =>
        /\ PhaseRank(phase') >= PhaseRank(phase)
        /\ PhaseRank(phase') <= PhaseRank(phase) + 1 \/ PhaseRank(phase') = 5
        /\ phase' = phase => idx' >= idx

\* C13: phase and output ordering.  In every run the phases follow one
\* another in the order A, B, C, none is entered twice, the entrypoint
\* precedes every wrapper in the output and the wrappers are in crate
\* iteration order.
C13_PhaseOrder == [] OutputInPhaseOrder /\ [][PhaseAdvances]_vars

\* C13 witness: a finished run whose output holds two wrappers.
C13_Witness == Finished /\ Len(out) = 3 /\ run_no = 1

\* Paths handed to insert_path a second time: the path of the last call,
\* every path and alias of the index, and strings that are not canonical
\* (empty, with empty pieces, below no crate).
ProbePaths ==
    used_paths.paths \cup DOMAIN used_paths.pub_use_decls \cup EntryImports
        \cup {last_inserted} \cup {<<"">>, <<"", "lib_a", "", "Thing">>, <<"lib_z", "q">>}

\* C14: insert_path is idempotent.  With the alias map fixed, a second
\* insert_path(p) changes neither paths nor aliases nor alias_hits: the index
\* left by the last call is a fixed point of that call, and so is the index
\* after inserting any other path.  (insert_path is called in phase B only,
\* when the alias map is complete, so the other paths are tried on the states
\* of that phase.)
C14_InsertPathIdempotent ==
    /\ last_inserted # <<>> => insert_path(used_paths, last_inserted) = used_paths
    /\ phase = "process_binary_file" =>
          \A p \in ProbePaths \ {<<>>} :
              LET once == insert_path(used_paths, p)
              IN  insert_path(once, p) = once

\* C14 witness: the last call went through an alias and inserted its target.
C14_Witness ==
    /\ last_inserted \in used_paths.pub_use_used
    /\ used_paths.pub_use_decls[last_inserted] \in used_paths.paths
    /\ used_paths.pub_use_decls[last_inserted] # last_inserted

\* The text of crate c's wrapper before the path rewrite: the transformed
\* library root, wrapped and printed.
PrintedCrate(c) ==
    wrapped_content(c, visit_file_mut(RootState(c), ReadFile(LibraryRoot(c))))

\* C15, as stated: the path rewrite is idempotent.  Rewriting the text of a
\* wrapper of the output, which has been rewritten once, changes nothing.
C15_RewriteIdempotent ==
    \A i \in WrapperChunks :
        post_process_output_string(WrapperOf(i).ident, out[i]) = out[i]

\* The law of the rewrite for a printed text t and its rewritten form w.
RewriteAgainLaw(c, t, w) ==
    /\ w = post_process_output_string(c, t)
    /\ (post_process_output_string(c, w) = w) <=> (w = t)

\* C15, amended: the rewrite is applied once to each crate's text and is not
\* idempotent.  Rewriting the rewritten text again is a no-op exactly when
\* the first rewrite changed nothing; every occurrence that was rewritten is
\* rewritten again.
C15_RewriteOnceOnly ==
    \A i \in WrapperChunks :
        RewriteAgainLaw(WrapperOf(i).ident, PrintedCrate(WrapperOf(i).ident), out[i])

\* C15 witness: a wrapper of the output holds a rewritten path
\* `crate::<crate_name>::...`.
C15_Witness ==
    \E w \in WrappedItems :
        /\ w.item.kind = "use"
        /\ w.item.tree.t = "path"
        /\ w.item.tree.ident = "crate"
        /\ w.item.tree.tree.t = "path"
        /\ w.item.tree.tree.ident = w.at[1]

\* The leaf paths of the public use-imports at the top level of the library
\* root of crate c that start with `std`.
StdReexports(c) ==
    IF ~ Exists(LibraryRoot(c)) THEN {}
    ELSE UNION {Leaves(it.tree) \cap {segs \in Leaves(it.tree) :
                                         segs # <<>> /\ segs[1] = "std"} :
                   it \in {x \in Range(ReadFile(LibraryRoot(c)).items) :
                              x.kind = "use" /\ x.is_pub}}

\* The crates the entrypoint's use-imports are rooted at.
EntryCrates == {q[1] : q \in {x \in EntryImports : x # <<>>}} \cap DOMAIN crates

C17_EntryScanFilter ==
    /\ \A p \in Range(pending) \cup ({last_inserted} \ {<<>>}) :
          /\ p \in EntryImports
          /\ p[1] \in DOMAIN crates
    /\ (AfterEntryScan /\ EntryCrates = {}) => used_paths.paths = {}
    /\ (Finished /\ EntryCrates = {}) => out = <<Unparse(EntryFile)>>

\* C17 witness: a run has finished on an entrypoint that holds use-imports,
\* none of them rooted at a crate.
C17_Witness ==
    /\ Finished
    /\ \E q \in EntryImports : q # <<>> /\ q[1] = "std"
    /\ EntryCrates = {}
    /\ Len(out) = 1

\* Whether the output item w may stem from the source item x of crate c:
\* the same kind of item under the same name, a use-import with the same
\* visibility and the tree of x or of one of its flattened leaves, rewritten.
StemsFrom(w, x, c) ==
    /\ w.kind = x.kind
    /\ IF w.kind = "use"
       THEN /\ w.is_pub = x.is_pub
            /\ w.tree \in {RewriteTree(x.tree, c)} \cup
                          {RewriteTree(l.tree, c) :
                              l \in Range(flatten_imported_paths(x.tree, <<>>))}
       ELSE w.ident = x.ident

\* C18: attribute stripping.  In every wrapper the wrapper module carries
\* exactly the three allow attributes, no item below it and not the printed
\* file carries an attribute whose path is doc, allow, cfg or warn, and
\* every emitted item carries all the other attributes of the source item it
\* stems from, unchanged and in order.
C18_AttributesStripped ==
    Finished =>
        \A i \in WrapperChunks :
            LET c == WrapperOf(i).ident
            IN  /\ WrapperOf(i).attrs = WrapperAttrs
                /\ out[i].attrs = visit_attributes_mut(ReadFile(LibraryRoot(c)).attrs)
                /\ \A w \in ItemsAt(WrapperOf(i).items, <<c>>) :
                      /\ \A k \in 1..Len(w.item.attrs) :
                            w.item.attrs[k].path \notin DroppedAttrs
                      /\ \E x \in CrateItems(c) : StemsFrom(w.item, x, c)
                      /\ \A x \in CrateItems(c) :
                            StemsFrom(w.item, x, c) =>
                                w.item.attrs = visit_attributes_mut(x.attrs)

\* Which phase takes the next step of the run.
InPhaseA == phase = "collect_pub_use_decls" /\ idx <= Len(crate_order)
InPhaseB ==
    \/ phase = "collect_pub_use_decls" /\ idx > Len(crate_order)
    \/ phase = "process_binary_file"
InPhaseC == phase = "collect_library_files"

\* What a step of each phase leaves alone.
PhaseFrames ==
    /\ InPhaseA => /\ used_paths'.paths = used_paths.paths
                   /\ used_paths'.pub_use_used = used_paths.pub_use_used
                   /\ out' = out
    /\ InPhaseB => used_paths'.pub_use_decls = used_paths.pub_use_decls
    /\ InPhaseC => used_paths' = used_paths

\* C19: phase frame conditions.  Phase A changes only aliases; Phase B
\* changes only paths, alias_hits and the output; Phase C leaves the Path
\* Index as it is.
C19_PhaseFrames == [][PhaseFrames]_vars

\* C19 witness: all three phases have acted: aliases were recorded, paths
\* inserted through one of them, and a wrapper written.
C19_Witness ==
    /\ Finished
    /\ DOMAIN used_paths.pub_use_decls # {}
    /\ used_paths.pub_use_used # {}
    /\ Len(out) >= 2

RECURSIVE ChildImportPaths(_, _)
\* The declared-only, non-test modules a walker meets below items when it
\* walks with phase state st, each with the file the Loader resolves it to,
\* the import path P/m and the import path its file is walked with.
ChildImportPaths(st, items) ==
    UNION {
        LET item == items[i] IN
        IF item.kind = "use" THEN {}
        ELSE IF item.kind = "other" \/ item.has_content
             THEN ChildImportPaths(st, item.items)
        ELSE IF is_test_module(item) \/ ~ load_mod(st.path, item.ident).found
             THEN {}
        ELSE LET loaded == load_mod(st.path, item.ident)
                 derived == DeriveImportPath(loaded.base_path, st.crate_name)
             IN  {[module |-> item.ident,
                   is_mod_rs |-> Exists(ModCandidates(st.path, item.ident)[2])
                                    /\ ~ Exists(ModCandidates(st.path, item.ident)[1]),
                   expected |-> st.import_path \o <<item.ident>>,
                   walked_with |-> derived]}
                 \cup ChildImportPaths(
                          PhaseState(st.crate_name, loaded.base_path, derived),
                          loaded.code.items)
        : i \in 1..Len(items)}

\* The modules the walkers have met in the crates of the project once Phase
\* A has returned.
WalkedModules ==
    IF PhaseRank(phase) \notin 2..4 THEN {}
    ELSE UNION {ChildImportPaths(RootState(c), ReadFile(LibraryRoot(c)).items) :
                   c \in DOMAIN crates}

\* C20: child import path.  The file of every declared-only, non-test module
\* m met at import path P is walked with the import path P/m, whether the
\* Loader resolved it as m.rs or as m/mod.rs.
C20_ChildImportPath ==
    \A r \in WalkedModules : r.walked_with = r.expected

RECURSIVE PubUseDeclsOf(_, _)
\* The (alias, target) pairs of the leaves of the public use-imports a walk
\* from items under phase state st is to record: the ones outside test
\* modules, declared-only or inlined, each derived at the import path of the
\* file it is in.
PubUseDeclsOf(st, items) ==
    UNION {
        LET item == items[i] IN
        CASE item.kind = "use" ->
                IF ~ item.is_pub THEN {}
                ELSE {tranform_alias_and_fqn(path[Len(path)], st.import_path, path) :
                         path \in Leaves(item.tree) \ {<<>>}}
          [] item.kind = "other" -> PubUseDeclsOf(st, item.items)
          [] item.kind = "mod" ->
                IF is_test_module(item) THEN {}
                ELSE IF item.has_content THEN PubUseDeclsOf(st, item.items)
                ELSE LET loaded == load_mod(st.path, item.ident)
                     IN  IF ~ loaded.found \/ ~ loaded.code.parses THEN {}
                         ELSE PubUseDeclsOf(
                                  PhaseState(st.crate_name, loaded.base_path,
                                      DeriveImportPath(loaded.base_path, st.crate_name)),
                                  loaded.code.items)
        : i \in 1..Len(items)}

\* The pairs of all crates of the project.
ProjectPubUseDecls ==
    UNION {PubUseDeclsOf(RootState(c), ReadFile(LibraryRoot(c)).items) :
              c \in DOMAIN crates}

\* C21: Phase A alias set.  Once Phase A has returned, the aliases are
\* exactly the ones of the leaves of public use-imports outside test modules,
\* each with a target derived for it; private use-imports and use-imports
\* inside a test module, declared-only or inlined, contribute none.
C21_PhaseAAliasSet ==
    PhaseRank(phase) \in 2..4 =>
        /\ DOMAIN used_paths.pub_use_decls = {r.alias : r \in ProjectPubUseDecls}
        /\ \A a \in DOMAIN used_paths.pub_use_decls :
              [alias |-> a, fully_qualified |-> used_paths.pub_use_decls[a]]
                  \in ProjectPubUseDecls

RECURSIVE PubUseLog(_, _)
\* The insert_pub_use_decl calls, as [alias, fully_qualified] in call order,
\* of the Phase A visitor walking items under phase state st.
PubUseLog(st, items) ==
    Flatten([i \in 1..Len(items) |->
        LET item == items[i] IN
        CASE item.kind = "use" ->
                IF ~ item.is_pub THEN <<>>
                ELSE LET paths == SelectSeq(extract_imported_paths(item.tree, <<>>),
                                            LAMBDA path : path # <<>>)
                     IN  [k \in 1..Len(paths) |->
                             tranform_alias_and_fqn(paths[k][Len(paths[k])],
                                                    st.import_path, paths[k])]
          [] item.kind = "other" -> PubUseLog(st, item.items)
          [] item.kind = "mod" ->
                IF item.has_content THEN PubUseLog(st, item.items)
                ELSE IF is_test_module(item) THEN <<>>
                ELSE LET loaded == load_mod(st.path, item.ident)
                     IN  IF ~ loaded.found \/ ~ loaded.code.parses THEN <<>>
                         ELSE PubUseLog(
                                  PhaseState(st.crate_name, loaded.base_path,
                                      DeriveImportPath(loaded.base_path, st.crate_name)),
                                  loaded.code.items)])

\* The calls of the whole of Phase A, crate after crate in iteration order.
PhaseALog ==
    Flatten([i \in 1..Len(crate_order) |->
                PubUseLog(RootState(crate_order[i]),
                          ReadFile(LibraryRoot(crate_order[i])).items)])

\* The target of the last registration of alias a in a log.
LastTarget(log, a) ==
    LET hits == {i \in 1..Len(log) : log[i].alias = a}
    IN  log[CHOOSE i \in hits : \A j \in hits : j <= i].fully_qualified

\* The alias map after Phase A is the log with the last registration of each
\* alias winning.
LastRegistrationWins(log) ==
    /\ DOMAIN used_paths.pub_use_decls = {log[i].alias : i \in 1..Len(log)}
    /\ \A a \in DOMAIN used_paths.pub_use_decls :
          used_paths.pub_use_decls[a] = LastTarget(log, a)

\* The paths the entry scan has handed to insert_path so far.
InsertedSoFar ==
    IF PhaseRank(phase) \notin 2..4 THEN {}
    ELSE LET all == ProcessBinaryFile_visit_items(EntryFile.items)
         IN  {all[i] : i \in 1..(Len(all) - Len(pending))}

\* insert_pub_use_decl(a, t2) after insert_pub_use_decl(a, t1) on the index
\* pp, and an insert_path through a after it.
OverwriteLaw(pp, a, t1, t2) ==
    LET pp2 == insert_pub_use_decl(insert_pub_use_decl(pp, a, t1), a, t2)
        pp3 == insert_path(pp2, a)
    IN  /\ DOMAIN pp2.pub_use_decls = DOMAIN pp.pub_use_decls \cup {a}
        /\ pp2.pub_use_decls[a] = t2
        /\ \A b \in DOMAIN pp.pub_use_decls \ {a} :
              pp2.pub_use_decls[b] = pp.pub_use_decls[b]
        /\ pp2.paths = pp.paths
        /\ pp2.pub_use_used = pp.pub_use_used
        /\ t2 \in pp3.paths
        /\ a \in pp3.pub_use_used
        /\ t1 \in pp3.paths =>
              t1 \in pp.paths \cup AliasClosure(pp2.pub_use_decls, {a})

\* Aliases and targets the law is tried on.
OverwriteAliases ==
    DOMAIN used_paths.pub_use_decls \cup {<<"lib_a", "T">>, <<"lib_z", "q">>}
OverwriteTargets == {<<"lib_a", "a", "T">>, <<"lib_a", "super", "b", "T">>}

\* C22: alias overwrite.  A second registration of an alias replaces its
\* target and changes no other alias, paths or alias_hits: when Phase A has
\* returned every alias has the target of its last registration in traversal
\* order; between the insert_path calls of the entry scan and after the last
\* one, the target of every alias that was hit is in paths and nothing is in
\* paths that the final alias map does not reach from the inserted paths.
C22_AliasOverwrite ==
    /\ (phase = "collect_pub_use_decls" /\ idx > Len(crate_order)) =>
          LastRegistrationWins(PhaseALog)
    /\ phase = "process_binary_file" =>
          /\ used_paths.paths
                 \subseteq AliasClosure(used_paths.pub_use_decls, InsertedSoFar)
          /\ \A a \in used_paths.pub_use_used :
                used_paths.pub_use_decls[a] \in used_paths.paths
    /\ (phase = "process_binary_file" /\ pending = <<>> /\ run_no = 1) =>
          \A a \in OverwriteAliases : \A t1, t2 \in OverwriteTargets :
              OverwriteLaw(used_paths, a, t1, t2)

\* C22 witness: an alias was registered twice with different targets, a path
\* was inserted through it, and paths holds the later target and not the
\* earlier one.
C22_Witness ==
    /\ AfterEntryScan
    /\ \E i, j \in 1..Len(PhaseALog) :
          /\ i < j
          /\ PhaseALog[i].alias = PhaseALog[j].alias
          /\ PhaseALog[i].alias \in used_paths.pub_use_used
          /\ PhaseALog[j].fully_qualified \in used_paths.paths
          /\ PhaseALog[i].fully_qualified \notin used_paths.paths

\* Use-trees the laws of the syntax utilities are tried on: every nesting of
\* paths, names, renames, globs and groups of up to two items, three levels
\* deep, and those below one more path or group.
LeafTrees == {UseName("a"), UseRename("a", "b"), UseGlob}
TreesOver(S) ==
    LeafTrees \cup {UsePath("p", t) : t \in S}
              \cup {UseGroup(s) : s \in UNION {[1..n -> S] : n \in 0..2}}
ProbeTrees ==
    LET T2 == TreesOver(TreesOver(LeafTrees))
    IN  T2 \cup {UsePath("q", t) : t \in T2} \cup {UseGroup(<<t>>) : t \in T2}

\* The use-trees of the public use-imports in the files of the project.
ProjectPubUseTrees ==
    {x.tree : x \in {it \in UNION {CrateItems(c) : c \in DOMAIN crates} :
                        it.kind = "use" /\ it.is_pub}}

\* Flattening t and extracting from each flattened item gives the leaves of
\* t, one item per leaf, in order.
FlattenRoundTrip(t) ==
    LET flat == flatten_imported_paths(t, <<>>)
        leaves == extract_imported_paths(t, <<>>)
    IN  /\ Len(flat) = Len(leaves)
        /\ \A k \in 1..Len(flat) :
              /\ flat[k].tree # PanicTree
              /\ extract_imported_paths(flat[k].tree, <<>>) = <<leaves[k]>>

\* The law on the trees it is tried on.
FlattenRoundTripOnProbes == \A t \in ProbeTrees : FlattenRoundTrip(t)

\* C23: round trip of flatten and extract.  For every use-tree the leaf
\* paths extracted from the items of its flattening are the leaf paths
\* extracted from the tree, item by item in the same order: on the trees of
\* every nesting, and on every public use-import the walkers meet in the
\* crates of a finished run.
C23_FlattenExtractRoundTrip ==
    /\ FlattenRoundTripOnProbes
    /\ Finished => \A t \in ProjectPubUseTrees : FlattenRoundTrip(t)

\* C23 witness: a finished run whose wrapper holds two re-exports flattened
\* from one grouped use-import of the library root.
C23_Witness ==
    /\ Finished
    /\ \E i \in WrapperChunks :
          \E t \in ProjectPubUseTrees :
              /\ t.t = "path" /\ t.tree.t = "group"
              /\ \E f1, f2 \in Range(flatten_imported_paths(t, <<>>)) :
                    /\ f1 # f2
                    /\ {f1, f2} \subseteq Range(WrapperOf(i).items)

RECURSIVE HasGroup(_)
\* Whether a use-tree holds a group.
HasGroup(tree) ==
    CASE tree.t = "group" -> TRUE
      [] tree.t = "path" -> HasGroup(tree.tree)
      [] OTHER -> FALSE

\* Every item of the flattening of t is a public use-import of one leaf
\* without a group, and none is the panic of wrap.
FlattenSingleLeaf(t) ==
    \A item \in Range(flatten_imported_paths(t, <<>>)) :
        /\ item.tree # PanicTree
        /\ item.kind = "use"
        /\ ~ HasGroup(item.tree)
        /\ Len(extract_imported_paths(item.tree, <<>>)) = 1

FlattenSingleLeafOnProbes == \A t \in ProbeTrees : FlattenSingleLeaf(t)

\* C24: flatten never panics and yields single-leaf items.  For every
\* use-tree, groups inside groups and groups below a path included, no item
\* of the flattening is the `unexpected group` panic and each holds exactly
\* one leaf and no group: on the trees of every nesting, and on every public
\* use-import of the crates Phase C is about to walk.
C24_FlattenSingleLeaf ==
    /\ FlattenSingleLeafOnProbes
    /\ (phase = "collect_library_files" /\ idx = 1) =>
          \A t \in ProjectPubUseTrees : FlattenSingleLeaf(t)

\* C24 witness: a finished run whose wrapper holds a re-export flattened from
\* a group that stands inside a group below a path.
C24_Witness ==
    /\ Finished
    /\ \E i \in WrapperChunks :
          \E t \in ProjectPubUseTrees :
              /\ t.t = "path" /\ t.tree.t = "group"
              /\ \E k \in 1..Len(t.tree.items) :
                    /\ t.tree.items[k].t = "path"
                    /\ t.tree.items[k].tree.t = "group"
                    /\ \E f \in Range(flatten_imported_paths(
                                        UsePath(t.ident, t.tree.items[k]), <<>>)) :
                          f \in Range(WrapperOf(i).items)

\* The directories and module names load_mod is tried on: the directories
\* of the project's files, the names of its files and directories, and the
\* name of a module that has no file.
LoaderBases == {f.dir : f \in DOMAIN fs}
LoaderNames ==
    {f.file[1] : f \in DOMAIN fs} \cup {f.dir[Len(f.dir)] : f \in DOMAIN fs}
        \cup {"gone"}

\* load_mod(base, m): base/m.rs when it exists, base/m/mod.rs otherwise, with
\* the directory the chosen file is in and its text; an error when neither
\* file exists.
LoaderLaw(base, m) ==
    LET r == load_mod(base, m)
        m_rs == [dir |-> base, file |-> <<m, "rs">>]
        mod_rs == [dir |-> base \o <<m>>, file |-> <<"mod", "rs">>]
    IN  /\ m_rs \in DOMAIN fs =>
              /\ r.found
              /\ r.base_path = base
              /\ r.code = fs[m_rs]
        /\ (m_rs \notin DOMAIN fs /\ mod_rs \in DOMAIN fs) =>
              /\ r.found
              /\ r.base_path = base \o <<m>>
              /\ r.code = fs[mod_rs]
        /\ (m_rs \notin DOMAIN fs /\ mod_rs \notin DOMAIN fs) => ~ r.found

\* C25: Loader resolution.  load_mod(base, m) takes base/m.rs when it
\* exists and base/m/mod.rs otherwise, returns the directory of the file it
\* took with the file's text, and fails when neither exists; a module whose
\* file exists in both forms is expanded from m.rs.  (The files of the crates
\* do not depend on the entrypoint: the directories and names are tried on
\* each source tree once, under the entrypoint without items.)
C25_LoaderResolution ==
    /\ (InPhaseA /\ idx = 1 /\ run_no = 1 /\ EntryFile.items = <<>>) =>
          \A base \in LoaderBases : \A m \in LoaderNames : LoaderLaw(base, m)
    /\ Finished =>
          \A i \in WrapperChunks :
              \A x \in Range(WrapperOf(i).items) :
                  LET src == SrcDir(WrapperOf(i).ident)
                      m_rs == FilePath(src, x.ident)
                  IN  (x.kind = "mod" /\ m_rs \in DOMAIN fs
                         /\ ~ \E y \in Range(ReadFile(LibraryRoot(WrapperOf(i).ident)).items) :
                                y.kind = "mod" /\ y.ident = x.ident /\ y.has_content) =>
                      \A y \in Range(x.items) :
                          y.kind = "other" =>
                              \E z \in Range(fs[m_rs].items) :
                                  z.kind = "other" /\ z.ident = y.ident

\* C25 witness: a finished run expanded a module whose file exists in both
\* forms.
C25_Witness ==
    /\ Finished
    /\ \E i \in WrapperChunks :
          \E x \in Range(WrapperOf(i).items) :
              /\ x.kind = "mod"
              /\ x.items # <<>>
              /\ FilePath(SrcDir(WrapperOf(i).ident), x.ident) \in DOMAIN fs
              /\ FilePath(SrcDir(WrapperOf(i).ident) \o <<x.ident>>, "mod")
                     \in DOMAIN fs

\* Canonical paths and alias maps insert_path is tried on: the paths of one
\* or two segments over two names, and every alias map with up to two
\* aliases over them (cycles, self-aliases and targets below their own alias
\* among them).
ProbeSegs == {"a", "b"}
CanonicalProbes ==
    {<<s>> : s \in ProbeSegs} \cup {<<s, t>> : s \in ProbeSegs, t \in ProbeSegs}
ProbeAliasMaps ==
    UNION {[D -> CanonicalProbes] :
              D \in {X \in SUBSET CanonicalProbes : Cardinality(X) <= 2}}

\* The targets of an alias map that are not in paths: the number of calls
\* besides the first that a top-level insert_path can make.
PendingTargets(pp) ==
    {pp.pub_use_decls[a] : a \in DOMAIN pp.pub_use_decls} \ pp.paths

\* insert_path(pp, path) returns: the counted run ends without running out of
\* calls, makes at most one call per alias target that was not in paths,
\* and ends with the index insert_path gives.
InsertPathReturns(pp, path) ==
    LET r == insert_path_counted([pp |-> pp, calls |-> 0, exhausted |-> FALSE], path)
    IN  /\ ~ r.exhausted
        /\ r.calls <= 1 + Cardinality(PendingTargets(pp))
        /\ r.pp = insert_path(pp, path)

InsertPathReturnsOnProbes ==
    \A decls \in ProbeAliasMaps : \A path \in CanonicalProbes :
        InsertPathReturns([NewParsedPaths EXCEPT !.pub_use_decls = decls], path)

\* C26: insert_path terminates.  For every canonical path and alias map,
\* cyclic ones included, a top-level insert_path returns after at most one
\* recursive call per alias target that was not in paths: on the alias maps
\* tried, and for the call each step of the entry scan is about to make.
C26_InsertPathTerminates ==
    /\ InsertPathReturnsOnProbes
    /\ (phase = "process_binary_file" /\ pending # <<>>) =>
          InsertPathReturns(used_paths, Head(pending))

\* C26 witness: the entry scan inserted a path that is an alias of itself,
\* and the call returned with the alias marked as used.
C26_Witness ==
    /\ last_inserted \in DOMAIN used_paths.pub_use_decls
    /\ used_paths.pub_use_decls[last_inserted] = last_inserted
    /\ last_inserted \in used_paths.pub_use_used

\* C27: alias-hit characterisation.  Once Phase A has returned, between the
\* top-level insert_path calls and after the last one, alias_hits is paths
\* intersected with the domain of the alias map, and the target of every
\* alias in paths is in paths; so alias_hits is within both paths and the
\* alias domain.
C27_AliasHits ==
    PhaseRank(phase) \in 2..4 =>
        /\ used_paths.pub_use_used
               = used_paths.paths \cap DOMAIN used_paths.pub_use_decls
        /\ \A p \in used_paths.paths \cap DOMAIN used_paths.pub_use_decls :
              used_paths.pub_use_decls[p] \in used_paths.paths
        /\ used_paths.pub_use_used \subseteq used_paths.paths
        /\ used_paths.pub_use_used \subseteq DOMAIN used_paths.pub_use_decls

\* C27 witness: after two top-level calls or more, two aliases are hit,
\* another alias is not, and paths holds a path that is no alias.
C27_Witness ==
    /\ AfterEntryScan
    /\ Cardinality(used_paths.pub_use_used) >= 2
    /\ DOMAIN used_paths.pub_use_decls \ used_paths.pub_use_used # {}
    /\ used_paths.paths \ DOMAIN used_paths.pub_use_decls # {}

RECURSIVE ImportedNames(_, _)
\* The paths a use-tree names in the crate it imports from: as the leaf
\* paths, with the imported name of a renamed leaf instead of its new name.
ImportedNames(tree, prefix) ==
    CASE tree.t = "path" -> ImportedNames(tree.tree, Append(prefix, tree.ident))
      [] tree.t \in {"name", "rename"} -> {Append(prefix, tree.ident)}
      [] tree.t = "group" ->
            UNION {ImportedNames(tree.items[i], prefix) : i \in 1..Len(tree.items)}
      [] tree.t = "glob" -> {prefix}

RECURSIVE SourceModPath(_, _, _)
\* Whether the chain of modules names[1]::names[2]::... exists in the source
\* below items, the items of a file in directory dir; declared-only modules
\* are followed into the file the Loader finds for them.
SourceModPath(dir, items, names) ==
    \/ names = <<>>
    \/ \E i \in 1..Len(items) :
          /\ items[i].kind = "mod"
          /\ items[i].ident = names[1]
          /\ ~ is_test_module(items[i])
          /\ IF items[i].has_content
             THEN SourceModPath(dir, items[i].items, Tail(names))
             ELSE LET loaded == load_mod(dir, names[1])
                  IN  /\ loaded.found
                      /\ loaded.code.parses
                      /\ SourceModPath(loaded.base_path, loaded.code.items,
                                       Tail(names))

RECURSIVE ExpandedModPath(_, _)
\* Whether the chain of modules names[1]::names[2]::... is in items, each
\* module with its body in place.
ExpandedModPath(items, names) ==
    \/ names = <<>>
    \/ \E i \in 1..Len(items) :
          /\ items[i].kind = "mod"
          /\ items[i].ident = names[1]
          /\ items[i].has_content
          /\ ExpandedModPath(items[i].items, Tail(names))

\* The use-imports of the entrypoint, the nested ones included.
EntryUseItems == {it \in AllItems(EntryFile.items) : it.kind = "use"}

\* C28: imported modules are retained.  For every use-import of the
\* entrypoint rooted at a discovered crate, every module of that crate that a
\* prefix of the imported path names (the whole path included, and the
\* imported name of a leaf renamed with `as`) is in the crate's wrapper with
\* its body expanded.
C28_ImportedModulesRetained ==
    Finished =>
        \A it \in EntryUseItems : \A p \in ImportedNames(it.tree, <<>>) :
            (p # <<>> /\ p[1] \in DOMAIN crates) =>
            \A k \in 2..Len(p) :
                SourceModPath(SrcDir(p[1]), ReadFile(LibraryRoot(p[1])).items,
                              SubSeq(p, 2, k))
                    => ExpandedModPath(OutputTopItems, SubSeq(p, 1, k))

\* A use-tree with the path rooted at the keyword `crate` re-rooted at the
\* module of crate_name, whatever follows `crate::`; any other tree as it is.
RerootedTree(tree, crate_name) ==
    IF tree.t = "path" /\ tree.ident = "crate"
    THEN UsePath("crate", UsePath(crate_name, tree.tree))
    ELSE tree

RECURSIVE RerootedItems(_, _)
RerootedItems(items, crate_name) ==
    [i \in 1..Len(items) |->
        IF items[i].kind = "use"
        THEN [items[i] EXCEPT !.tree = RerootedTree(@, crate_name)]
        ELSE [items[i] EXCEPT !.items = RerootedItems(@, crate_name)]]

\* C29: the path rewrite changes exactly the paths rooted at `crate`.  The
\* text of every wrapper is the printed crate with each path that begins with
\* `crate::`, a group or a glob after it included, beginning with
\* `crate::<crate_name>::`, and nothing else altered.
C29_RewriteExactlyCratePaths ==
    \A i \in WrapperChunks :
        LET c == WrapperOf(i).ident
            printed == PrintedCrate(c)
        IN  out[i] = [printed EXCEPT !.items = RerootedItems(@, c)]

\* The leaves of the use-imports of the entrypoint, nested ones included,
\* that are rooted at a discovered crate, in source order.
CrateRootedLeaves ==
    SelectSeq(UseLeaves(EntryFile.items),
              LAMBDA p : p # <<>> /\ p[1] \in DOMAIN crates)

\* The paths the entry scan hands to insert_path, in order: those handed
\* over so far and those still to come.
ScannedPaths ==
    LET all == ProcessBinaryFile_visit_items(EntryFile.items)
    IN  SubSeq(all, 1, Len(all) - Len(pending)) \o pending

\* C30: Phase B scans every use-import.  The paths Phase B inserts are the
\* leaves of all use-imports of the entrypoint rooted at a discovered crate,
\* those inside a function body or an inline module like those at the top
\* level; after the scan each is in paths; and the entrypoint Phase B prints
\* is the parsed file, unmodified.
C30_EntryScanVisitsNested ==
    /\ phase = "process_binary_file" =>
          /\ ScannedPaths = CrateRootedLeaves
          /\ entry_ast = EntryFile
    /\ AfterEntryScan =>
          /\ Range(CrateRootedLeaves) \subseteq used_paths.paths
          /\ out[1] = Unparse(EntryFile)

\* C30 witness: after the scan, paths holds a crate that only a use-import
\* nested inside an item of the entrypoint is rooted at.
C30_Witness ==
    /\ AfterEntryScan
    /\ \E c \in DOMAIN crates :
          /\ contains_path(used_paths, <<c>>)
          /\ \A i \in 1..Len(EntryFile.items) :
                EntryFile.items[i].kind = "use" =>
                    \A p \in Leaves(EntryFile.items[i].tree) : p = <<>> \/ p[1] # c

====
